---- MODULE Spec2Model ----
(***************************************************************************)
(* git-ac: the commit-message synthesis pipeline.                          *)
(*                                                                         *)
(* Strings are sequences of bytes, as Go's len() and slicing see them.     *)
(* A byte is written as a one-character string; the three bytes of the     *)
(* UTF-8 encoding of U+2026 (the ellipsis "…") are written "E2","80","A6". *)
(* Indices handed between the string helpers are Go's 0-based indices.     *)
(***************************************************************************)
EXTENDS Integers, Sequences, FiniteSets, TLC

\* ------------------------------------------------------------------ bytes

SP == " "
TAB == "\t"
NL == "\n"

Ellipsis == <<"E2", "80", "A6">>
OpenTag == <<"<", "t", "h", "i", "n", "k", ">">>
CloseTag == <<"<", "/", "t", "h", "i", "n", "k", ">">>

SetMin(S) == CHOOSE x \in S : \A y \in S : x <= y
SetMax(S) == CHOOSE x \in S : \A y \in S : x >= y

\* s[lo:hi]
Slice(s, lo, hi) == SubSeq(s, lo + 1, hi)

\* the 0-based offsets at which sub occurs in s
Occurrences(s, sub) ==
    {i \in 0..(Len(s) - Len(sub)) : SubSeq(s, i + 1, i + Len(sub)) = sub}

\* strings.Contains
Contains(s, sub) == Occurrences(s, sub) # {}

\* strings.Index: the first offset of sub in s, or -1
Index(s, sub) == IF Occurrences(s, sub) = {} THEN -1 ELSE SetMin(Occurrences(s, sub))

\* strings.LastIndex: the last offset of sub in s, or -1
LastIndex(s, sub) == IF Occurrences(s, sub) = {} THEN -1 ELSE SetMax(Occurrences(s, sub))

\* unicode.IsSpace on the bytes of the model's alphabet
IsSpace(b) == b = SP \/ b = TAB \/ b = NL

\* strings.TrimSpace
TrimSpace(s) ==
    LET keep == {i \in 1..Len(s) : ~IsSpace(s[i])}
    IN  IF keep = {} THEN <<>> ELSE SubSeq(s, SetMin(keep), SetMax(keep))

\* strings.Split(s, sep), sep non-empty: cut at each occurrence, left to right
RECURSIVE Split(_, _)
Split(s, sep) ==
    LET i == Index(s, sep)
    IN  IF i < 0 THEN <<s>>
        ELSE <<Slice(s, 0, i)>> \o Split(Slice(s, i + Len(sep), Len(s)), sep)

\* strings.Join
RECURSIVE Join(_, _)
Join(parts, sep) ==
    IF parts = <<>> THEN <<>>
    ELSE IF Len(parts) = 1 THEN parts[1]
    ELSE parts[1] \o sep \o Join(Tail(parts), sep)

\* strings.ReplaceAll(s, old, ""): one left-to-right pass over non-overlapping matches
RECURSIVE ReplaceAll(_, _)
ReplaceAll(s, old) ==
    LET i == Index(s, old)
    IN  IF i < 0 THEN s
        ELSE Slice(s, 0, i) \o ReplaceAll(Slice(s, i + Len(old), Len(s)), old)

\* ------------------------------------------------ llm.CleanCommitMessage

\* the loop "Remove thinking patterns"
RECURSIVE RemoveThinkingBlocks(_)
RemoveThinkingBlocks(cleaned) ==
    IF Contains(cleaned, OpenTag) /\ Contains(cleaned, CloseTag)
    THEN LET start == Index(cleaned, OpenTag)
             end == Index(cleaned, CloseTag) + Len(CloseTag)
         IN  IF start >= 0 /\ end > start
             THEN RemoveThinkingBlocks(Slice(cleaned, 0, start)
                                       \o Slice(cleaned, end, Len(cleaned)))
             ELSE cleaned
    ELSE cleaned

\* mutant: the text before the first closing tag is kept instead
AfterFirstThink(cleaned) ==
    IF Contains(cleaned, CloseTag)
    THEN LET parts == Split(cleaned, CloseTag)
         IN  IF Len(parts) > 1 THEN TrimSpace(parts[1]) ELSE cleaned
    ELSE cleaned

\* "For thinking models, look for the actual answer after </think>"
AfterLastThink(cleaned) ==
    IF Contains(cleaned, CloseTag)
    THEN LET parts == Split(cleaned, CloseTag)
         IN  IF Len(parts) > 1 THEN TrimSpace(parts[Len(parts)]) ELSE cleaned
    ELSE cleaned

\* the thinking-marker half of CleanCommitMessage: trim, answer after the last
\* closing tag, block removal, removal of the remaining tags, trim
StripThinking(message) ==
    LET c1 == AfterLastThink(TrimSpace(message))
        c2 == RemoveThinkingBlocks(c1)
        c3 == ReplaceAll(ReplaceAll(c2, OpenTag), CloseTag)
    IN  TrimSpace(c3)

\* mutant: hard truncation, the remainder is dropped
SplitSubjectTruncating(lines, commitConfig) ==
    LET subject == TrimSpace(lines[1])
    IN  IF commitConfig.MaxLength > 0 /\ Len(subject) > commitConfig.MaxLength
        THEN <<Slice(subject, 0, commitConfig.MaxLength - 1) \o Ellipsis>> \o Tail(lines)
        ELSE lines

\* mutant: the break point is searched up to and including offset MaxLength-1
SplitSubjectAtLimit(lines, commitConfig) ==
    LET subject == TrimSpace(lines[1])
    IN  IF commitConfig.MaxLength > 0 /\ Len(subject) > commitConfig.MaxLength
        THEN LET maxLen == commitConfig.MaxLength - 1
                 spaceIdx == LastIndex(Slice(subject, 0, maxLen + 1), <<SP>>)
             IN  IF spaceIdx > 0
                 THEN <<Slice(subject, 0, spaceIdx) \o Ellipsis,
                        Ellipsis \o TrimSpace(Slice(subject, spaceIdx, Len(subject)))>>
                      \o Tail(lines)
                 ELSE <<Slice(subject, 0, maxLen) \o Ellipsis,
                        Ellipsis \o Slice(subject, maxLen, Len(subject))>>
                      \o Tail(lines)
        ELSE lines

\* mutant: the remainder starts one byte late
SplitSubjectDroppingByte(lines, commitConfig) ==
    LET subject == TrimSpace(lines[1])
    IN  IF commitConfig.MaxLength > 0 /\ Len(subject) > commitConfig.MaxLength
        THEN LET maxLen == commitConfig.MaxLength - 1
                 spaceIdx == LastIndex(Slice(subject, 0, maxLen), <<SP>>)
             IN  IF spaceIdx > 0
                 THEN <<Slice(subject, 0, spaceIdx) \o Ellipsis,
                        Ellipsis \o TrimSpace(Slice(subject, spaceIdx, Len(subject)))>>
                      \o Tail(lines)
                 ELSE <<Slice(subject, 0, maxLen) \o Ellipsis,
                        Ellipsis \o Slice(subject, maxLen + 1, Len(subject))>>
                      \o Tail(lines)
        ELSE lines

\* "Handle first line length - split with ellipsis if too long, never truncate"
SplitSubject(lines, commitConfig) ==
    LET subject == TrimSpace(lines[1])
    IN  IF commitConfig.MaxLength > 0 /\ Len(subject) > commitConfig.MaxLength
        THEN LET maxLen == commitConfig.MaxLength - 1
                 spaceIdx == LastIndex(Slice(subject, 0, maxLen), <<SP>>)
             IN  IF spaceIdx > 0
                 THEN LET first == Slice(subject, 0, spaceIdx) \o Ellipsis
                          remainder == TrimSpace(Slice(subject, spaceIdx, Len(subject)))
                      IN  IF remainder # <<>>
                          THEN <<first, Ellipsis \o remainder>> \o Tail(lines)
                          ELSE <<first>> \o Tail(lines)
                 ELSE LET first == Slice(subject, 0, maxLen) \o Ellipsis
                          remainder == Slice(subject, maxLen, Len(subject))
                      IN  IF remainder # <<>>
                          THEN <<first, Ellipsis \o remainder>> \o Tail(lines)
                          ELSE <<first>> \o Tail(lines)
        ELSE lines

CleanCommitMessage(message, commitConfig) ==
    LET cleaned == StripThinking(message)
        lines == Split(cleaned, <<NL>>)
    IN  IF Len(lines) > 0 THEN Join(SplitSubject(lines, commitConfig), <<NL>>)
        ELSE cleaned

\* ------------------------------------------------------------ llm prompts

ContextWindow == 4096
ReadmeLineCap == 20

\* strings.Fields(diff): the number of maximal runs of non-space bytes
\* mutant: words are what single spaces separate
WordCountBySpaces(s) == Cardinality({i \in 1..Len(s) : s[i] = SP}) + 1

WordCount(s) ==
    Cardinality({i \in 1..Len(s) : ~IsSpace(s[i]) /\ (i = 1 \/ IsSpace(s[i - 1]))})

\* int((4096 / 2) / 1.3)
MaxWords == ((ContextWindow \div 2) * 10) \div 13

\* mutant: the threshold itself counts as oversized
IsDiffTooLargeInclusive(d) == WordCount(d) >= MaxWords

IsDiffTooLarge(d) == WordCount(d) > MaxWords

TruncatedMarker ==
    <<".", ".", ".", " ", "(", "t", "r", "u", "n", "c", "a", "t", "e", "d", ")">>

\* the README block of BuildCommitPrompt: at most ReadmeLineCap lines
ReadmeSection(rd) ==
    LET readmeLines == Split(rd, <<NL>>)
    IN  IF Len(readmeLines) > ReadmeLineCap
        THEN Join(SubSeq(readmeLines, 1, ReadmeLineCap), <<NL>>) \o <<NL>> \o TruncatedMarker
        ELSE rd

SummaryHeader == "FILE CHANGES SUMMARIZED:\n"
DiffHeader == "STAGED DIFF:\n"

\* mutant: the section header does not follow isFileSummary
BuildCommitPromptDiffHeader(cnt, rd, isFileSummary, cfg) ==
    [template |-> "commit",
     maxLength |-> cfg.MaxLength,
     hasReadme |-> rd # <<>>,
     readmeSection |-> IF rd # <<>> THEN ReadmeSection(rd) ELSE <<>>,
     header |-> DiffHeader,
     content |-> cnt]

\* The prompt text is a fixed preamble (with the subject limit printed in it),
\* the optional README block, the section header and the content, in this order;
\* the record keeps the parts that vary.
BuildCommitPrompt(cnt, rd, isFileSummary, cfg) ==
    [template |-> "commit",
     maxLength |-> cfg.MaxLength,
     hasReadme |-> rd # <<>>,
     readmeSection |-> IF rd # <<>> THEN ReadmeSection(rd) ELSE <<>>,
     header |-> IF isFileSummary THEN SummaryHeader ELSE DiffHeader,
     content |-> cnt]

BuildSummarizePrompt(d) ==
    [template |-> "summarize",
     maxLength |-> 0,
     hasReadme |-> FALSE,
     readmeSection |-> <<>>,
     header |-> "DIFF:\n",
     content |-> d]

\* ------------------------------------------------------------- providers

\* an error value: its classification, what its message carries, the context
\* a caller wrapped it in, and the underlying error errors.Unwrap still
\* reaches ("none" when the message was built without %w, or nothing failed
\* underneath)
NoErr == [kind |-> "nil", detail |-> <<>>, context |-> "none", unwrap |-> "none"]
Err(k, d) == [kind |-> k, detail |-> d, context |-> "none", unwrap |-> "none"]
ErrWrap(k, d, cause) == [kind |-> k, detail |-> d, context |-> "none", unwrap |-> cause]

Host == <<"http://localhost:11434">>
BaseURL == <<"https://api.example/v1">>
Model == "llama2"

\* provider.timeout (the default of config.Load) and the deadline of the
\* Ollama health check, in seconds
Timeout == 30
HealthCheckTimeout == 5

\* the token budget a request carries: "num_ctx" of the Ollama requests and
\* MaxTokens of the OpenAI requests ("Match Ollama's num_ctx")
NumCtx == 4096
OpenAIMaxTokens == 4096
RequestBudget(p) == IF p = "ollama" THEN NumCtx ELSE OpenAIMaxTokens

\* mutant: the OpenAI summarization request samples like a generation request
SummarizeRequestPerProvider(p, prompt) ==
    [op |-> "summarize", prompt |-> prompt,
     temperature10 |-> IF p = "openai" THEN 7 ELSE 3,
     topP10 |-> IF p = "openai" THEN 9 ELSE 8,
     numCtx |-> RequestBudget(p), stop |-> TRUE]

\* sampling options in tenths; num_ctx (Ollama) and max_tokens (OpenAI) in tokens
SummarizeRequest(p, prompt) ==
    [op |-> "summarize", prompt |-> prompt, temperature10 |-> 3, topP10 |-> 8,
     numCtx |-> RequestBudget(p), stop |-> TRUE]

\* mutant: the generation request samples like a summarization request
GenerateRequestCold(p, prompt) ==
    [op |-> "generate", prompt |-> prompt, temperature10 |-> 3, topP10 |-> 8,
     numCtx |-> RequestBudget(p), stop |-> FALSE]

GenerateRequest(p, prompt) ==
    [op |-> "generate", prompt |-> prompt, temperature10 |-> 7, topP10 |-> 9,
     numCtx |-> RequestBudget(p), stop |-> FALSE]

\* mutant: the loop leaves after the first listed model
ScanModelsFirstOnly(models, i, availableModels) ==
    IF i > Len(models) THEN [modelFound |-> FALSE, availableModels |-> availableModels]
    ELSE [modelFound |-> models[i] = Model,
          availableModels |-> Append(availableModels, models[i])]

\* the loop over resp.Models: every visited name is appended, and the loop
\* breaks at the configured model
RECURSIVE ScanModels(_, _, _)
ScanModels(models, i, availableModels) ==
    IF i > Len(models) THEN [modelFound |-> FALSE, availableModels |-> availableModels]
    ELSE IF models[i] = Model
         THEN [modelFound |-> TRUE, availableModels |-> Append(availableModels, models[i])]
    ELSE ScanModels(models, i + 1, Append(availableModels, models[i]))

\* OllamaProvider.HealthCheck on the outcome r of client.List
OllamaHealthCheck(r) ==
    IF r.err = "connection refused" THEN Err("connectivity", Host)
    ELSE IF r.err # "none" THEN ErrWrap("connect_failed", <<r.err>>, r.err)
    ELSE IF ScanModels(r.models, 1, <<>>).modelFound THEN NoErr
    ELSE Err("model_not_found", ScanModels(r.models, 1, <<>>).availableModels)

RECURSIVE Concat(_)
Concat(chunks) == IF chunks = <<>> THEN <<>> ELSE chunks[1] \o Concat(Tail(chunks))

\* mutant: the cleaned message is returned without the emptiness check
FinishMessageUnchecked(p, text, cfg) ==
    LET message == TrimSpace(text)
    IN  IF message = <<>> THEN [msg |-> <<>>, err |-> Err("empty_response", <<>>)]
        ELSE [msg |-> CleanCommitMessage(message, cfg), err |-> NoErr]

\* mutant: the trimmed answer is returned as it is
FinishMessageUncleaned(p, text, cfg) ==
    LET message == TrimSpace(text)
    IN  IF message = <<>> THEN [msg |-> <<>>, err |-> Err("empty_response", <<>>)]
        ELSE [msg |-> message, err |-> NoErr]

\* the tail of both generateFromRequest methods: trim, reject blank, clean,
\* reject a message that cleaning emptied
FinishMessage(p, text, cfg) ==
    LET message == TrimSpace(text)
        cleanedMessage == CleanCommitMessage(message, cfg)
    IN  IF message = <<>> THEN [msg |-> <<>>, err |-> Err("empty_response", <<>>)]
        ELSE IF cleanedMessage = <<>>
             THEN [msg |-> <<>>, err |-> Err("empty_after_cleaning", message)]
        ELSE [msg |-> cleanedMessage, err |-> NoErr]

\* mutant: what was streamed before the failure is returned with the error
OllamaGenerateKeepingPartial(r, cfg) ==
    IF r.err # "none"
    THEN [msg |-> Concat(r.chunks), err |-> ErrWrap("generate_failed", <<r.err>>, r.err)]
    ELSE FinishMessage("ollama", Concat(r.chunks), cfg)

\* OllamaProvider.generateFromRequest on the outcome r of client.Generate:
\* r.chunks are the responses the callback received, r.err the call's error
OllamaGenerateFromRequest(r, cfg) ==
    IF r.err = "context deadline exceeded"
    THEN [msg |-> <<>>, err |-> Err("timeout", <<Timeout>>)]
    ELSE IF r.err = "connection refused" THEN [msg |-> <<>>, err |-> Err("connectivity", Host)]
    ELSE IF r.err # "none"
         THEN [msg |-> <<>>, err |-> ErrWrap("generate_failed", <<r.err>>, r.err)]
    ELSE FinishMessage("ollama", Concat(r.chunks), cfg)

\* the OpenAIConfig the provider was built with
DefaultOpenAIConfig == [Model |-> Model, BaseURL |-> BaseURL]

\* OpenAIProvider.makeRequest of a provider configured with config, on the
\* outcome r of client.Do; the detail lists the texts printed into the message
\* (the error client.Do returns names the request URL)
OpenAIMakeRequestFor(config, r) ==
    IF r.err \in {"context deadline exceeded", "timeout"} THEN Err("timeout", <<Timeout>>)
    ELSE IF r.err \in {"connection refused", "no such host"}
         THEN Err("connectivity", config.BaseURL)
    ELSE IF r.err # "none" THEN ErrWrap("request_failed", <<r.err>> \o config.BaseURL, r.err)
    ELSE IF r.status = 401 THEN Err("authentication", <<>>)
    ELSE IF r.status = 404 THEN Err("model_not_found", <<config.Model>>)
    ELSE IF r.status = 429 THEN Err("rate_limit", <<>>)
    ELSE IF r.status \in {500, 502, 503, 504} THEN Err("server_error", <<ToString(r.status)>>)
    ELSE IF r.status # 200 THEN Err("api_status", <<ToString(r.status), r.body>>)
    ELSE IF ~r.decodes THEN ErrWrap("decode_failed", <<>>, "invalid character")
    ELSE NoErr

OpenAIMakeRequest(r) == OpenAIMakeRequestFor(DefaultOpenAIConfig, r)

\* OpenAIProvider.generateFromRequest
OpenAIGenerateFromRequest(r, cfg) ==
    IF OpenAIMakeRequest(r) # NoErr THEN [msg |-> <<>>, err |-> OpenAIMakeRequest(r)]
    ELSE IF Len(r.choices) = 0 THEN [msg |-> <<>>, err |-> Err("no_choices", <<>>)]
    ELSE FinishMessage("openai", r.choices[1], cfg)

GenerateFromRequest(p, r, cfg) ==
    IF p = "ollama" THEN OllamaGenerateFromRequest(r, cfg)
    ELSE OpenAIGenerateFromRequest(r, cfg)

\* generateCommitMessageTwoStage: "failed to summarize file changes: %w"
WrapSummarize(e) == [e EXCEPT !.context = "summarize"]

\* which of the substrings OpenAIProvider.HealthCheck searches for occur in
\* the message of an error makeRequest returned
\* (as far as its fixed wording goes)
KindMentions(k) ==
    IF k = "authentication" THEN {"401", "authentication"}
    ELSE IF k = "model_not_found" THEN {"404"}
    ELSE {}

\* configuration and response texts, each with a searched-for substring it
\* contains
SubstringFacts ==
    {<<"gpt-401", "401">>,
     <<"http://localhost:4010/v1", "401">>,
     <<"upstream answered 404", "404">>}

TextMentions(t) == {f[2] : f \in {g \in SubstringFacts : g[1] = t}}

Mentions(e) ==
    KindMentions(e.kind)
    \cup (IF e.kind = "timeout" THEN {}
          ELSE UNION {TextMentions(e.detail[i]) : i \in DOMAIN e.detail})

\* mutant: every failure of the request is wrapped, none is classified
OpenAIHealthCheckWrapping(r) ==
    IF OpenAIMakeRequest(r) = NoErr THEN NoErr
    ELSE [OpenAIMakeRequest(r) EXCEPT !.context = "health check"]

\* OpenAIProvider.HealthCheck of a provider configured with config, on the
\* outcome r of its one-token request
OpenAIHealthCheckFor(config, r) ==
    LET e == OpenAIMakeRequestFor(config, r)
    IN  IF e = NoErr THEN NoErr
        ELSE IF Mentions(e) \cap {"connection refused", "no such host"} # {}
             THEN Err("connectivity", config.BaseURL)
        ELSE IF Mentions(e) \cap {"401", "authentication"} # {}
             THEN Err("authentication", <<>>)
        ELSE IF "404" \in Mentions(e) THEN Err("model_not_found", <<config.Model>>)
        ELSE [e EXCEPT !.context = "health check"]

OpenAIHealthCheck(r) == OpenAIHealthCheckFor(DefaultOpenAIConfig, r)

\* the time, in seconds, after which a network operation of provider p is
\* aborted when provider.timeout is t: the earlier of the context deadline
\* and the http.Client Timeout the constructor set
Deadline(p, op, t) ==
    IF p = "ollama" /\ op = "health" THEN SetMin({HealthCheckTimeout, t})
    ELSE t

\* ------------------------------------------------------------------ config

\* a Config: durations in seconds, a provider section with the flag whether
\* the pointer is set, the API key by its length
NoOllama == [set |-> FALSE, Host |-> "", Model |-> ""]
NoOpenAI == [set |-> FALSE, BaseURL |-> "", APIKeyLen |-> 0, Model |-> ""]

\* "Start with defaults"
DefaultConfig ==
    [Type |-> "ollama", Timeout |-> Timeout,
     Ollama |-> [set |-> TRUE, Host |-> Host[1], Model |-> Model],
     OpenAI |-> NoOpenAI,
     MaxLength |-> 72]

\* strings.HasPrefix(url, "http://") || strings.HasPrefix(url, "https://"), on
\* the URLs of the model
HasURLScheme(url) == url \in {Host[1], BaseURL[1]}

\* Config.Validate of src/unnamed/part_003: "" when the config is accepted
ValidateStrict(c) ==
    IF c.Type = "" THEN "provider type is required"
    ELSE IF c.Timeout <= 0 THEN "provider timeout must be positive"
    ELSE IF c.Timeout > 10 * 60 THEN "provider timeout is too large"
    ELSE IF c.MaxLength <= 0 THEN "max_length must be positive"
    ELSE IF c.MaxLength < 20 THEN "max_length is too small"
    ELSE IF c.MaxLength > 200 THEN "max_length is too large"
    ELSE IF c.Type = "ollama"
         THEN IF ~c.Ollama.set THEN "ollama config section is required"
              ELSE IF c.Ollama.Host = "" THEN "ollama host is required"
              ELSE IF ~HasURLScheme(c.Ollama.Host) THEN "ollama host must be a valid URL"
              ELSE IF c.Ollama.Model = "" THEN "ollama model is required"
              ELSE ""
    ELSE IF c.Type = "openai"
         THEN IF ~c.OpenAI.set THEN "openai config section is required"
              ELSE IF c.OpenAI.BaseURL = "" THEN "openai base_url is required"
              ELSE IF ~HasURLScheme(c.OpenAI.BaseURL) THEN "openai base_url must be a valid URL"
              ELSE IF c.OpenAI.APIKeyLen = 0 THEN "openai api_key is required"
              ELSE IF c.OpenAI.APIKeyLen < 10 THEN "openai api_key appears to be too short"
              ELSE IF c.OpenAI.Model = "" THEN "openai model is required"
              ELSE ""
    ELSE "unsupported provider type"

\* Config.Validate of src/internal/config/config.go
ValidateSections(c) ==
    IF c.Type = "ollama"
    THEN IF ~c.Ollama.set THEN "ollama config required"
         ELSE IF c.Ollama.Host = "" THEN "ollama host is required"
         ELSE IF c.Ollama.Model = "" THEN "ollama model is required"
         ELSE ""
    ELSE IF c.Type = "openai"
         THEN IF ~c.OpenAI.set THEN "openai config required"
              ELSE IF c.OpenAI.BaseURL = "" THEN "openai base_url is required"
              ELSE IF c.OpenAI.APIKeyLen = 0 THEN "openai api_key is required"
              ELSE IF c.OpenAI.Model = "" THEN "openai model is required"
              ELSE ""
    ELSE "unsupported provider type"

\* the two versions of package config in the source tree
ConfigVersions == {"part_003", "config.go"}
Validate(version, c) ==
    IF version = "part_003" THEN ValidateStrict(c) ELSE ValidateSections(c)

\* config.Load on the state of ~/.config/git-ac.yaml: absent, unreadable,
\* unparsable, or parsed over the defaults into file.cfg
Load(version, file) ==
    IF file.state = "absent" THEN [cfg |-> DefaultConfig, err |-> NoErr]
    ELSE IF file.state # "parsed"
         THEN [cfg |-> DefaultConfig, err |-> ErrWrap("config_file", <<>>, file.state)]
    ELSE IF Validate(version, file.cfg) # ""
         THEN [cfg |-> DefaultConfig,
               err |-> ErrWrap("invalid_config", <<>>, Validate(version, file.cfg))]
    ELSE [cfg |-> file.cfg, err |-> NoErr]

\* provider.NewProvider: the variant built, or the defensive error
NewProvider(cfg) ==
    IF cfg.Type = "ollama" THEN [variant |-> "ollama", err |-> NoErr]
    ELSE IF cfg.Type = "openai" THEN [variant |-> "openai", err |-> NoErr]
    ELSE [variant |-> "none", err |-> Err("unsupported_provider", <<cfg.Type>>)]

\* ---------------------------------------------------------------- bounds

MaxTokens == 4
LongWordLen == 10

LongWord == [i \in 1..LongWordLen |-> "a"]

\* commit.max_length values (the validated range starts at 20)
MaxLengths == {20, 21, 22}
CommitConfigs == {[MaxLength |-> n] : n \in MaxLengths}

\* raw texts are built from these pieces
ThinkBlock == OpenTag \o <<"r">> \o CloseTag
Tokens ==
    {LongWord, LongWord \o <<SP>>, <<SP>>, <<NL>>, <<TAB>>, OpenTag, CloseTag, ThinkBlock}

TokenSeqs == UNION {[1..n -> Tokens] : n \in 0..MaxTokens}
CleanInputs == {Concat(ts) : ts \in TokenSeqs}

\* a diff of n one-letter words
DiffOfWords(n) == [i \in 1..(2 * n - 1) |-> IF i % 2 = 1 THEN "d" ELSE SP]
DiffWordCounts == {50, MaxWords, MaxWords + 1, 3000}

\* a README of n lines
ReadmeOfLines(n) == [i \in 1..(2 * n - 1) |-> IF i % 2 = 1 THEN "r" ELSE NL]
Readmes == {<<>>, ReadmeOfLines(ReadmeLineCap), ReadmeOfLines(ReadmeLineCap + 1)}

\* what a model may answer
RawTexts ==
    {<<>>,
     <<SP, NL>>,
     ThinkBlock,
     ThinkBlock \o <<"f", "i", "x", ":", SP, "a">>,
     <<SP, "f", "i", "x", ":", SP, "a", NL>>,
     LongWord \o <<SP>> \o LongWord \o <<SP>> \o LongWord \o <<NL, NL, "b">>,
     LongWord \o LongWord \o LongWord}

ListResults ==
    {[err |-> "connection refused", models |-> <<>>],
     [err |-> "EOF", models |-> <<>>],
     [err |-> "none", models |-> <<>>],
     [err |-> "none", models |-> <<"mistral">>],
     [err |-> "none", models |-> <<"mistral", Model>>]}

OllamaResponses ==
    {[err |-> "none", chunks |-> <<t>>] : t \in RawTexts}
    \cup {[err |-> "none", chunks |-> <<<<"f", "i">>, <<"x", ":", SP, "a">>>>]}
    \cup {[err |-> e, chunks |-> <<<<"f", "i">>>>] :
            e \in {"context deadline exceeded", "connection refused", "EOF"}}

OpenAIResponses ==
    {[err |-> "none", status |-> 200, decodes |-> TRUE, choices |-> <<t>>, body |-> ""] :
        t \in RawTexts}
    \cup {[err |-> "none", status |-> 200, decodes |-> d, choices |-> <<>>, body |-> ""] :
            d \in BOOLEAN}
    \cup {[err |-> "none", status |-> st, decodes |-> TRUE, choices |-> <<>>, body |-> ""] :
            st \in {401, 404, 418, 429, 500, 503}}
    \cup {[err |-> e, status |-> 0, decodes |-> FALSE, choices |-> <<>>, body |-> ""] :
            e \in {"context deadline exceeded", "connection refused", "EOF"}}

Responses(p) == IF p = "ollama" THEN OllamaResponses ELSE OpenAIResponses

\* ---- inputs of the operations checked on their own

MaxModels == 3
MaxChunks == 2

\* a diff of n one-letter words separated by sep, optionally padded with
\* white space at both ends
DiffWith(n, sep, pad) ==
    LET body == [i \in 1..(IF n = 0 THEN 0 ELSE 2 * n - 1) |-> IF i % 2 = 1 THEN "d" ELSE sep]
    IN  IF pad THEN <<SP>> \o body \o <<NL>> ELSE body

TriageWordCounts == {0, 1, 2, 50, MaxWords - 1, MaxWords, MaxWords + 1, MaxWords + 2, 3000}
TriageInputs ==
    {[words |-> n, diff |-> DiffWith(n, sep, pad)] :
        n \in TriageWordCounts, sep \in {SP, TAB, NL}, pad \in BOOLEAN}

TransportErrors == {"context deadline exceeded", "connection refused", "no such host", "EOF"}

ModelNames == {"mistral", Model, "phi"}
ListOutcomes ==
    {[err |-> "none", models |-> ms] : ms \in UNION {[1..n -> ModelNames] : n \in 0..MaxModels}}
    \cup {[err |-> e, models |-> <<>>] : e \in TransportErrors}

ChunkTexts == {<<>>, <<SP>>, <<"f", "i">>, <<"x", ":", SP, "a">>, ThinkBlock}
StreamOutcomes ==
    {[err |-> e, chunks |-> cs, cfg |-> c] :
        e \in {"none"} \cup TransportErrors,
        cs \in UNION {[1..n -> ChunkTexts] : n \in 0..MaxChunks},
        c \in CommitConfigs}

Statuses == {200, 201, 400, 401, 403, 404, 418, 429, 500, 501, 502, 503, 504, 599}
HTTPOutcomes ==
    {[err |-> "none", status |-> st, decodes |-> d, choices |-> ch, body |-> "", cfg |-> c] :
        st \in Statuses, d \in BOOLEAN,
        ch \in {<<>>, <<<<SP>>>>, <<ThinkBlock>>, <<<<"f", "i", "x">>>>},
        c \in CommitConfigs}
    \cup {[err |-> e, status |-> 0, decodes |-> FALSE, choices |-> <<>>, body |-> "", cfg |-> c] :
            e \in TransportErrors \cup {"timeout"}, c \in CommitConfigs}

\* the health check's request, for providers whose model name or base URL
\* contains digits, and answers whose body does
OpenAIConfigs ==
    {[Model |-> m, BaseURL |-> <<u>>] :
        m \in {Model, "gpt-401"}, u \in {BaseURL[1], "http://localhost:4010/v1"}}
HealthOutcomes ==
    {[err |-> "none", status |-> st, decodes |-> d, choices |-> <<>>, body |-> b, config |-> c] :
        st \in Statuses, d \in BOOLEAN, b \in {"", "upstream answered 404"},
        c \in OpenAIConfigs}
    \cup {[err |-> e, status |-> 0, decodes |-> FALSE, choices |-> <<>>, body |-> "",
            config |-> c] :
            e \in TransportErrors \cup {"timeout"}, c \in OpenAIConfigs}

\* what ~/.config/git-ac.yaml may parse to
OllamaSections ==
    {NoOllama,
     [set |-> TRUE, Host |-> Host[1], Model |-> Model],
     [set |-> TRUE, Host |-> "", Model |-> Model],
     [set |-> TRUE, Host |-> "localhost:11434", Model |-> Model],
     [set |-> TRUE, Host |-> Host[1], Model |-> ""]}
OpenAISections ==
    {NoOpenAI,
     [set |-> TRUE, BaseURL |-> BaseURL[1], APIKeyLen |-> 12, Model |-> Model],
     [set |-> TRUE, BaseURL |-> BaseURL[1], APIKeyLen |-> 5, Model |-> Model],
     [set |-> TRUE, BaseURL |-> "", APIKeyLen |-> 12, Model |-> Model]}
FileConfigs ==
    {[Type |-> ty, Timeout |-> t, Ollama |-> ol, OpenAI |-> oa, MaxLength |-> n] :
        ty \in {"", "ollama", "openai", "azure"},
        t \in {0, Timeout, 10 * 60, 10 * 60 + 1},
        ol \in OllamaSections, oa \in OpenAISections,
        n \in {-1, 0, 19, 20, 72, 200, 201}}
ConfigFiles ==
    {[state |-> st, cfg |-> DefaultConfig] : st \in {"absent", "unreadable", "unparsable"}}
    \cup {[state |-> "parsed", cfg |-> c] : c \in FileConfigs}
LoadInputs == {[version |-> v, file |-> f] : v \in ConfigVersions, f \in ConfigFiles}

\* CleanCommitMessage on texts made of markers and pieces of markers
MaxFragments == 3
Fragments == {<<"<">>, <<"t", "h", "i", "n", "k", ">">>, OpenTag, CloseTag, <<"x">>, <<SP>>}
FragmentInputs ==
    {[message |-> Concat(fs), cfg |-> c] :
        fs \in UNION {[1..n -> Fragments] : n \in 0..MaxFragments}, c \in CommitConfigs}

\* provider.timeout values Validate accepts (positive, at most ten minutes)
ConfiguredTimeouts == {2, Timeout, 120}
DeadlineInputs ==
    {[provider |-> p, op |-> o, timeout |-> t, otherTimeout |-> u] :
        p \in {"ollama", "openai"}, o \in {"health", "summarize", "generate"},
        t \in ConfiguredTimeouts, u \in ConfiguredTimeouts}

\* READMEs of n lines, the last one with or without its newline
ReadmeWith(n, newline) ==
    IF n = 0 THEN <<>>
    ELSE ReadmeOfLines(n) \o (IF newline THEN <<NL>> ELSE <<>>)

ReadmeLineCounts == {0, 1, ReadmeLineCap - 1, ReadmeLineCap, ReadmeLineCap + 1, ReadmeLineCap + 5}
PromptInputs ==
    {[content |-> c, lines |-> n, readme |-> ReadmeWith(n, nl), isFileSummary |-> b, cfg |-> cfg] :
        c \in {<<>>, <<"d">>, <<"d", NL, "e">>}, n \in ReadmeLineCounts, nl \in BOOLEAN,
        b \in BOOLEAN, cfg \in CommitConfigs}

Units ==
    {"IsDiffTooLarge", "OllamaHealthCheck", "OllamaGenerate", "OpenAIGenerate",
     "OpenAIHealthCheck", "Deadline", "BuildCommitPrompt", "CleanCommitMessage",
     "Load"}

UnitInputs(u) ==
    IF u = "IsDiffTooLarge" THEN TriageInputs
    ELSE IF u = "OllamaHealthCheck" THEN ListOutcomes
    ELSE IF u = "OllamaGenerate" THEN StreamOutcomes
    ELSE IF u = "Deadline" THEN DeadlineInputs
    ELSE IF u = "BuildCommitPrompt" THEN PromptInputs
    ELSE IF u = "CleanCommitMessage" THEN FragmentInputs
    ELSE IF u = "Load" THEN LoadInputs
    ELSE IF u = "OpenAIHealthCheck" THEN HealthOutcomes
    ELSE HTTPOutcomes

\* ----------------------------------------------------------------- state

VARIABLES
    provider,      \* "ollama" | "openai": the variant NewProvider built
    commitConfig,  \* config.CommitConfig
    diff,          \* the staged diff handed to GenerateCommitMessage
    diffWords,     \* the number of words the diff was built with
    readme,        \* the README text handed to GenerateCommitMessage
    pc,            \* where the GenerateCommitMessage invocation stands
    log,           \* what the invocation has done so far, in order
    content,       \* what the commit prompt will embed
    isSummary,     \* whether content is the stage-1 summary
    msg,           \* the returned message
    err,           \* the returned error
    cleanIn,       \* CleanCommitMessage under test: the message
    cleanCfg,      \*   its commit config
    cleanOut,      \*   its result
    cleanOut2,     \*   the result of cleaning the result
    cleanStage,    \*   how many times it has been applied
    unit,          \* an operation under test on its own: which one
    unitIn,        \*   its input
    unitOut,       \*   its result
    unitDone,      \*   whether it has run
    flags,         \* run of the CLI: the -a and -e flags
    runPc,         \*   where run stands
    runCfg,        \*   the loaded config
    effects,       \*   the steps run has taken outside the process, in order
    commitMsg,     \*   run's commitMsg
    runErr         \*   the error run returned

pipeVars == <<provider, commitConfig, diff, diffWords, readme, pc, log, content, isSummary, msg, err>>
cleanVars == <<cleanIn, cleanCfg, cleanOut, cleanOut2, cleanStage>>
unitVars == <<unit, unitIn, unitOut, unitDone>>
runVars == <<flags, runPc, runCfg, effects, commitMsg, runErr>>
vars == <<pipeVars, cleanVars, unitVars, runVars>>

NoRequest == [op |-> "none", prompt |-> BuildSummarizePrompt(<<>>), temperature10 |-> 0,
              topP10 |-> 0, numCtx |-> 0, stop |-> FALSE]

\* the text a backend answer carries (what fullResponse / choices[0] holds)
RawText(p, r) ==
    IF p = "ollama" THEN Concat(r.chunks)
    ELSE IF Len(r.choices) > 0 THEN r.choices[1] ELSE <<>>

Event(op, req, raw, res) ==
    [op |-> op, request |-> req, raw |-> raw, result |-> res.msg, err |-> res.err]

PipeIdle ==
    /\ provider = "none" /\ commitConfig = [MaxLength |-> 0]
    /\ diff = <<>> /\ diffWords = 0 /\ readme = <<>> /\ pc = "idle" /\ log = <<>>
    /\ content = <<>> /\ isSummary = FALSE /\ msg = <<>> /\ err = NoErr

CleanIdle ==
    /\ cleanIn = <<>> /\ cleanCfg = [MaxLength |-> 0]
    /\ cleanOut = <<>> /\ cleanOut2 = <<>> /\ cleanStage = -1

UnitIdle == unit = "none" /\ unitIn = <<>> /\ unitOut = <<>> /\ unitDone = FALSE

RunIdle ==
    /\ flags = [a |-> FALSE, e |-> FALSE] /\ runPc = "idle" /\ runCfg = DefaultConfig
    /\ effects = <<>> /\ commitMsg = <<>> /\ runErr = NoErr

\* one GenerateCommitMessage(diff, readme) invocation on a constructed provider
Init ==
    /\ provider \in {"ollama", "openai"}
    /\ commitConfig \in CommitConfigs
    /\ diffWords \in DiffWordCounts
    /\ diff = DiffOfWords(diffWords)
    /\ readme \in Readmes
    /\ pc = "start"
    /\ log = <<>>
    /\ content = <<>>
    /\ isSummary = FALSE
    /\ msg = <<>>
    /\ err = NoErr
    /\ CleanIdle
    /\ UnitIdle
    /\ RunIdle

\* OllamaProvider.GenerateCommitMessage: "First, check if Ollama is reachable
\* and the model exists"
HealthCheck ==
    /\ pc = "start" /\ provider = "ollama"
    /\ \E r \in ListResults :
         LET e == OllamaHealthCheck(r)
         IN  /\ log' = Append(log, Event("health", NoRequest, <<>>, [msg |-> <<>>, err |-> e]))
             /\ pc' = IF e = NoErr THEN "triage" ELSE "error"
             /\ err' = e
    /\ UNCHANGED <<provider, commitConfig, diff, diffWords, readme, content, isSummary, msg, cleanVars, unitVars, runVars>>

\* "Check if diff is too large for direct processing"; the OpenAI provider
\* starts here
TriageDiff ==
    /\ pc = "triage" \/ (pc = "start" /\ provider = "openai")
    /\ log' = Append(log, Event("triage", NoRequest, <<>>, [msg |-> <<>>, err |-> NoErr]))
    /\ pc' = IF IsDiffTooLarge(diff) THEN "summarize" ELSE "generate"
    /\ content' = diff
    /\ isSummary' = FALSE
    /\ UNCHANGED <<provider, commitConfig, diff, diffWords, readme, msg, err, cleanVars, unitVars, runVars>>

\* mutant: a failed summarization request is issued once more
SummarizeRetrying ==
    /\ pc = "summarize"
    /\ \E r \in Responses(provider) :
         LET req == SummarizeRequest(provider, BuildSummarizePrompt(diff))
             res == GenerateFromRequest(provider, r, commitConfig)
             again == Cardinality({i \in 1..Len(log) : log[i].op = "summarize"}) = 0
         IN  /\ log' = Append(log, Event("summarize", req, RawText(provider, r), res))
             /\ IF res.err = NoErr
                THEN /\ content' = res.msg
                     /\ isSummary' = TRUE
                     /\ pc' = "generate"
                     /\ UNCHANGED err
                ELSE /\ err' = IF again THEN err ELSE WrapSummarize(res.err)
                     /\ pc' = IF again THEN "summarize" ELSE "error"
                     /\ UNCHANGED <<content, isSummary>>
    /\ UNCHANGED <<provider, commitConfig, diff, diffWords, readme, msg, cleanVars, unitVars, runVars>>

\* generateCommitMessageTwoStage, stage 1: summarizeFileChanges
Summarize ==
    /\ pc = "summarize"
    /\ \E r \in Responses(provider) :
         LET req == SummarizeRequest(provider, BuildSummarizePrompt(diff))
             res == GenerateFromRequest(provider, r, commitConfig)
         IN  /\ log' = Append(log, Event("summarize", req, RawText(provider, r), res))
             /\ IF res.err = NoErr
                THEN /\ content' = res.msg
                     /\ isSummary' = TRUE
                     /\ pc' = "generate"
                     /\ UNCHANGED err
                ELSE /\ err' = WrapSummarize(res.err)
                     /\ pc' = "error"
                     /\ UNCHANGED <<content, isSummary>>
    /\ UNCHANGED <<provider, commitConfig, diff, diffWords, readme, msg, cleanVars, unitVars, runVars>>

\* generateFromPrompt on the commit prompt (direct path, or stage 2)
Generate ==
    /\ pc = "generate"
    /\ \E r \in Responses(provider) :
         LET req == GenerateRequest(provider,
                        BuildCommitPrompt(content, readme, isSummary, commitConfig))
             res == GenerateFromRequest(provider, r, commitConfig)
         IN  /\ log' = Append(log, Event("generate", req, RawText(provider, r), res))
             /\ msg' = res.msg
             /\ err' = res.err
             /\ pc' = IF res.err = NoErr THEN "done" ELSE "error"
    /\ UNCHANGED <<provider, commitConfig, diff, diffWords, readme, content, isSummary, cleanVars, unitVars, runVars>>

Next == HealthCheck \/ TriageDiff \/ Summarize \/ Generate

Spec == Init /\ [][Next]_vars

\* ------------------------------------------- CleanCommitMessage on its own

InitClean ==
    /\ PipeIdle
    /\ UnitIdle
    /\ RunIdle
    /\ cleanIn \in CleanInputs
    /\ cleanCfg \in CommitConfigs
    /\ cleanOut = <<>>
    /\ cleanOut2 = <<>>
    /\ cleanStage = 0

Clean ==
    /\ cleanStage = 0
    /\ cleanOut' = CleanCommitMessage(cleanIn, cleanCfg)
    /\ cleanStage' = 1
    /\ UNCHANGED <<cleanIn, cleanCfg, cleanOut2, pipeVars, unitVars, runVars>>

CleanAgain ==
    /\ cleanStage = 1
    /\ cleanOut2' = CleanCommitMessage(cleanOut, cleanCfg)
    /\ cleanStage' = 2
    /\ UNCHANGED <<cleanIn, cleanCfg, cleanOut, pipeVars, unitVars, runVars>>

NextClean == Clean \/ CleanAgain

SpecClean == InitClean /\ [][NextClean]_vars

\* ------------------------------------------- single operations on their own

InitUnits ==
    /\ PipeIdle
    /\ CleanIdle
    /\ RunIdle
    /\ unit \in Units
    /\ unitIn \in UnitInputs(unit)
    /\ unitOut = <<>>
    /\ unitDone = FALSE

Ran(out) ==
    /\ unitOut' = out
    /\ unitDone' = TRUE
    /\ UNCHANGED <<unit, unitIn, pipeVars, cleanVars, runVars>>

ApplyIsDiffTooLarge ==
    /\ unit = "IsDiffTooLarge" /\ ~unitDone
    /\ Ran(IsDiffTooLarge(unitIn.diff))

ApplyOllamaHealthCheck ==
    /\ unit = "OllamaHealthCheck" /\ ~unitDone
    /\ Ran([msg |-> <<>>, err |-> OllamaHealthCheck(unitIn)])

ApplyOllamaGenerate ==
    /\ unit = "OllamaGenerate" /\ ~unitDone
    /\ Ran(OllamaGenerateFromRequest(unitIn, unitIn.cfg))

ApplyOpenAIGenerate ==
    /\ unit = "OpenAIGenerate" /\ ~unitDone
    /\ Ran(OpenAIGenerateFromRequest(unitIn, unitIn.cfg))

ApplyOpenAIHealthCheck ==
    /\ unit = "OpenAIHealthCheck" /\ ~unitDone
    /\ Ran([msg |-> <<>>, err |-> OpenAIHealthCheckFor(unitIn.config, unitIn)])

ApplyDeadline ==
    /\ unit = "Deadline" /\ ~unitDone
    /\ Ran([deadline |-> Deadline(unitIn.provider, unitIn.op, unitIn.timeout),
            otherDeadline |-> Deadline(unitIn.provider, unitIn.op, unitIn.otherTimeout)])

ApplyBuildCommitPrompt ==
    /\ unit = "BuildCommitPrompt" /\ ~unitDone
    /\ Ran(BuildCommitPrompt(unitIn.content, unitIn.readme, unitIn.isFileSummary, unitIn.cfg))

ApplyCleanCommitMessage ==
    /\ unit = "CleanCommitMessage" /\ ~unitDone
    /\ Ran(CleanCommitMessage(unitIn.message, unitIn.cfg))

\* config.Load, then provider.NewProvider on the config it returned
ApplyLoad ==
    /\ unit = "Load" /\ ~unitDone
    /\ LET loaded == Load(unitIn.version, unitIn.file)
       IN  Ran([cfg |-> loaded.cfg, err |-> loaded.err,
                provider |-> IF loaded.err = NoErr THEN NewProvider(loaded.cfg)
                             ELSE [variant |-> "none", err |-> NoErr]])

NextUnits ==
    \/ ApplyIsDiffTooLarge
    \/ ApplyOllamaHealthCheck
    \/ ApplyOllamaGenerate
    \/ ApplyOpenAIGenerate
    \/ ApplyOpenAIHealthCheck
    \/ ApplyDeadline
    \/ ApplyBuildCommitPrompt
    \/ ApplyCleanCommitMessage
    \/ ApplyLoad

SpecUnits == InitUnits /\ [][NextUnits]_vars

\* ------------------------------------------------------- run of the CLI

\* what run may find: the config file, the staged diff, the README, what the
\* editor leaves in the file
RunConfigFiles ==
    {[state |-> "absent", cfg |-> DefaultConfig],
     [state |-> "unparsable", cfg |-> DefaultConfig],
     [state |-> "parsed",
      cfg |-> [DefaultConfig EXCEPT
                 !.Type = "openai",
                 !.OpenAI = [set |-> TRUE, BaseURL |-> BaseURL[1], APIKeyLen |-> 12,
                             Model |-> Model],
                 !.MaxLength = 20]]}
RunDiffWordCounts == {0, 50, MaxWords + 1}
RunReadmes == {<<>>, ReadmeOfLines(2)}
EditorContents(initialContent) ==
    {initialContent, initialContent \o <<NL>>, <<>>, <<SP, NL>>, <<SP, "e", NL>>}

Effect(step, ok, text) == [step |-> step, ok |-> ok, text |-> text]

Fail(e) ==
    /\ runErr' = e
    /\ runPc' = "failed"

InitRun ==
    /\ PipeIdle
    /\ CleanIdle
    /\ UnitIdle
    /\ flags \in [a : BOOLEAN, e : BOOLEAN]
    /\ runPc = "load"
    /\ runCfg = DefaultConfig
    /\ effects = <<>>
    /\ commitMsg = <<>>
    /\ runErr = NoErr

\* cfg, err := config.Load()
RunLoad ==
    /\ runPc = "load"
    /\ \E v \in ConfigVersions, f \in RunConfigFiles :
         LET loaded == Load(v, f)
         IN  /\ effects' = Append(effects, Effect("load", loaded.err = NoErr, <<>>))
             /\ IF loaded.err = NoErr
                THEN runCfg' = loaded.cfg /\ runPc' = "validate" /\ UNCHANGED runErr
                ELSE Fail([loaded.err EXCEPT !.context = "load config"]) /\ UNCHANGED runCfg
    /\ UNCHANGED <<flags, commitMsg, pipeVars, cleanVars, unitVars>>

\* git.ValidateRepository()
RunValidateRepository ==
    /\ runPc = "validate"
    /\ \E ok \in BOOLEAN :
         /\ effects' = Append(effects, Effect("validate", ok, <<>>))
         /\ IF ok
            THEN runPc' = (IF flags.a THEN "stage" ELSE "diff") /\ UNCHANGED runErr
            ELSE Fail(Err("not_a_repository", <<>>))
    /\ UNCHANGED <<flags, runCfg, commitMsg, pipeVars, cleanVars, unitVars>>

\* git.StageAllChanges(), with -a
RunStageAllChanges ==
    /\ runPc = "stage"
    /\ \E ok \in BOOLEAN :
         /\ effects' = Append(effects, Effect("stage", ok, <<>>))
         /\ IF ok
            THEN runPc' = "diff" /\ UNCHANGED runErr
            ELSE Fail(ErrWrap("stage_failed", <<>>, "git add failed"))
    /\ UNCHANGED <<flags, runCfg, commitMsg, pipeVars, cleanVars, unitVars>>

\* mutant: an empty diff goes on to the provider
RunGetStagedDiffUnchecked ==
    /\ runPc = "diff"
    /\ \E n \in RunDiffWordCounts, rd \in RunReadmes :
         /\ effects' = Append(effects, Effect("diff", TRUE, <<>>))
         /\ diffWords' = n
         /\ diff' = (IF n = 0 THEN <<>> ELSE DiffOfWords(n))
         /\ readme' = rd
         /\ runPc' = "provider"
         /\ UNCHANGED runErr
    /\ UNCHANGED <<flags, runCfg, commitMsg, provider, commitConfig, pc, log, content,
                   isSummary, msg, err, cleanVars, unitVars>>

\* diff, err := git.GetStagedDiff(), the check for the empty diff, and
\* git.GetReadmeContent()
RunGetStagedDiff ==
    /\ runPc = "diff"
    /\ \/ /\ effects' = Append(effects, Effect("diff", FALSE, <<>>))
          /\ Fail(ErrWrap("diff_failed", <<>>, "failed to get staged diff"))
          /\ UNCHANGED <<diff, diffWords, readme>>
       \/ \E n \in RunDiffWordCounts, rd \in RunReadmes :
            /\ effects' = Append(effects, Effect("diff", TRUE, <<>>))
            /\ diffWords' = n
            /\ diff' = (IF n = 0 THEN <<>> ELSE DiffOfWords(n))
            /\ IF n = 0
               THEN /\ Fail(Err(IF flags.a THEN "no_changes_to_stage"
                                ELSE "no_staged_changes", <<>>))
                    /\ UNCHANGED readme
               ELSE /\ readme' = rd
                    /\ runPc' = "provider"
                    /\ UNCHANGED runErr
    /\ UNCHANGED <<flags, runCfg, commitMsg, provider, commitConfig, pc, log, content,
                   isSummary, msg, err, cleanVars, unitVars>>

\* llmProvider, err := provider.NewProvider(cfg), and the call of
\* llmProvider.GenerateCommitMessage(diff, readme)
RunNewProvider ==
    /\ runPc = "provider"
    /\ LET built == NewProvider(runCfg)
       IN  IF built.err = NoErr
           THEN /\ provider' = built.variant
                /\ commitConfig' = [MaxLength |-> runCfg.MaxLength]
                /\ pc' = "start"
                /\ runPc' = "generate"
                /\ UNCHANGED runErr
           ELSE /\ Fail([built.err EXCEPT !.context = "create provider"])
                /\ UNCHANGED <<provider, commitConfig, pc>>
    /\ UNCHANGED <<flags, runCfg, effects, commitMsg, diff, diffWords, readme, log, content,
                   isSummary, msg, err, cleanVars, unitVars>>

\* mutant: the error of GenerateCommitMessage is not looked at
RunGeneratedUnchecked ==
    /\ runPc = "generate" /\ pc \in {"done", "error"}
    /\ effects' = Append(effects, Effect("generate", err = NoErr, msg))
    /\ commitMsg' = msg
    /\ runPc' = (IF flags.e THEN "edit" ELSE "commit")
    /\ UNCHANGED <<flags, runCfg, runErr, pipeVars, cleanVars, unitVars>>

\* the return of GenerateCommitMessage into run
RunGenerated ==
    /\ runPc = "generate" /\ pc \in {"done", "error"}
    /\ effects' = Append(effects, Effect("generate", err = NoErr, msg))
    /\ IF err = NoErr
       THEN /\ commitMsg' = msg
            /\ runPc' = (IF flags.e THEN "edit" ELSE "commit")
            /\ UNCHANGED runErr
       ELSE /\ Fail([err EXCEPT !.context = "generate commit message"])
            /\ UNCHANGED commitMsg
    /\ UNCHANGED <<flags, runCfg, pipeVars, cleanVars, unitVars>>

\* mutant: the edited content is committed as the editor left it
RunEditUntrimmed ==
    /\ runPc = "edit"
    /\ \E editedContent \in EditorContents(commitMsg) :
         /\ effects' = Append(effects, Effect("edit", TRUE, editedContent))
         /\ commitMsg' = editedContent
         /\ runPc' = "commit"
         /\ UNCHANGED runErr
    /\ UNCHANGED <<flags, runCfg, pipeVars, cleanVars, unitVars>>

\* editedMsg, err := editor.Edit(commitMsg), with -e
RunEdit ==
    /\ runPc = "edit"
    /\ \/ \E why \in {"no editor found", "editor failed"} :
            /\ effects' = Append(effects, Effect("edit", FALSE, <<>>))
            /\ Fail(ErrWrap("edit_failed", <<>>, why))
            /\ UNCHANGED commitMsg
       \/ \E editedContent \in EditorContents(commitMsg) :
            LET result == TrimSpace(editedContent)
            IN  /\ effects' = Append(effects, Effect("edit", TRUE, editedContent))
                /\ IF result = <<>>
                   THEN /\ Fail(ErrWrap("edit_failed", <<>>, "commit message cannot be empty"))
                        /\ UNCHANGED commitMsg
                   ELSE /\ commitMsg' = result
                        /\ runPc' = "commit"
                        /\ UNCHANGED runErr
    /\ UNCHANGED <<flags, runCfg, pipeVars, cleanVars, unitVars>>

\* git.Commit(commitMsg): git commit -F on a file holding the message
RunCommit ==
    /\ runPc = "commit"
    /\ \E ok \in BOOLEAN :
         /\ effects' = Append(effects, Effect("commit", ok, commitMsg))
         /\ IF ok
            THEN runPc' = "done" /\ UNCHANGED runErr
            ELSE Fail(ErrWrap("commit_failed", <<>>, "git commit failed"))
    /\ UNCHANGED <<flags, runCfg, commitMsg, pipeVars, cleanVars, unitVars>>

NextRun ==
    \/ RunLoad
    \/ RunValidateRepository
    \/ RunStageAllChanges
    \/ RunGetStagedDiff
    \/ RunNewProvider
    \/ HealthCheck
    \/ TriageDiff
    \/ Summarize
    \/ Generate
    \/ RunGenerated
    \/ RunEdit
    \/ RunCommit

SpecRun == InitRun /\ [][NextRun]_vars

\* ================================================================ claims

Terminal == pc \in {"done", "error"}

\* the backend calls of the invocation (health-check traffic aside), in order
BackendCalls == SelectSeq(log, LAMBDA e : e.op \in {"summarize", "generate"})

\* C1: every invocation, whatever the provider, performs a successful
\* HealthCheck before diff triage and before any summarization or generation
\* request, and nothing follows a failed HealthCheck.
C1_HealthCheckFirst ==
    \A i \in 1..Len(log) :
        /\ log[i].op \in {"triage", "summarize", "generate"}
             => \E j \in 1..(i - 1) : log[j].op = "health" /\ log[j].err = NoErr
        /\ (log[i].op = "health" /\ log[i].err # NoErr)
             => (i = Len(log) /\ pc = "error")

\* C2: with an oversized diff the backend is called for the summary and then for
\* the message, in that order and nothing else; the second prompt carries the
\* stage-1 result under the summary header and not the diff; a failed
\* summarization ends the invocation in error with no second call.
C2_TwoStage ==
    diffWords > MaxWords =>
        /\ Len(BackendCalls) <= 2
        /\ Len(BackendCalls) >= 1 =>
             /\ BackendCalls[1].op = "summarize"
             /\ BackendCalls[1].request.prompt.content = diff
             /\ BackendCalls[1].err # NoErr =>
                  Len(BackendCalls) = 1 /\ pc = "error" /\ err # NoErr /\ msg = <<>>
        /\ Len(BackendCalls) = 2 =>
             /\ BackendCalls[1].err = NoErr
             /\ BackendCalls[2].op = "generate"
             /\ BackendCalls[2].request.prompt.header = SummaryHeader
             /\ BackendCalls[2].request.prompt.content = BackendCalls[1].result
             /\ BackendCalls[2].request.prompt.content # diff
        /\ (Terminal /\ \E i \in 1..Len(log) : log[i].op = "triage") =>
             Len(BackendCalls) = IF BackendCalls[1].err = NoErr THEN 2 ELSE 1

C2_Witness ==
    /\ pc = "done"
    /\ diffWords = 3000
    /\ Len(BackendCalls) = 2
    /\ BackendCalls[2].request.prompt.content = BackendCalls[1].result

\* C3: with a diff at or below the threshold the backend is called once, for
\* generation; no summarization request is sent and the prompt embeds the raw
\* diff under the "STAGED DIFF" header.
C3_DirectPath ==
    diffWords <= MaxWords =>
        /\ Len(BackendCalls) <= 1
        /\ \A i \in 1..Len(log) : log[i].op # "summarize"
        /\ Len(BackendCalls) = 1 =>
             /\ BackendCalls[1].op = "generate"
             /\ BackendCalls[1].request.prompt.header = DiffHeader
             /\ BackendCalls[1].request.prompt.content = diff
        /\ (Terminal /\ \E i \in 1..Len(log) : log[i].op = "triage") =>
             Len(BackendCalls) = 1

C3_Witness ==
    /\ pc = "done"
    /\ diffWords = MaxWords
    /\ Len(BackendCalls) = 1
    /\ BackendCalls[1].request.prompt.header = DiffHeader

\* C4: an invocation ends either with a non-blank message, the normalization of
\* the last answer, and no error, or with an error and the empty message;
\* before it ends nothing has been returned.
C4_NoPartialSuccess ==
    /\ pc = "done" =>
         /\ err = NoErr
         /\ TrimSpace(msg) # <<>>
         /\ msg = CleanCommitMessage(TrimSpace(log[Len(log)].raw), commitConfig)
    /\ pc = "error" => err # NoErr /\ msg = <<>>
    /\ ~Terminal => msg = <<>> /\ err = NoErr

C4_Witness ==
    /\ pc = "error"
    /\ isSummary
    /\ err.kind = "empty_after_cleaning"
    /\ TrimSpace(log[Len(log)].raw) # <<>>
    /\ msg = <<>>

\* --------------------------------------------- claims on CleanCommitMessage

NoMarkers(s) == ~Contains(s, OpenTag) /\ ~Contains(s, CloseTag)

\* the number of characters of s: every byte but the UTF-8 continuation bytes
RuneCount(s) == Cardinality({i \in 1..Len(s) : s[i] \notin {"80", "A6"}})

NonSpace(s) == SelectSeq(s, LAMBDA b : ~IsSpace(b))

EndsWith(s, suffix) ==
    Len(s) >= Len(suffix) /\ Slice(s, Len(s) - Len(suffix), Len(s)) = suffix
StartsWith(s, prefix) ==
    Len(s) >= Len(prefix) /\ Slice(s, 0, Len(prefix)) = prefix

\* the message after marker removal, as lines, and its subject
CleanLines == Split(StripThinking(cleanIn), <<NL>>)
CleanSubject == TrimSpace(CleanLines[1])
OutLines == Split(cleanOut, <<NL>>)
TooLong == Len(CleanSubject) > cleanCfg.MaxLength

\* the offsets of the space bytes of subject below offset lim
SpacesBelow(subject, lim) == {i \in 0..(lim - 1) : subject[i + 1] = SP}

\* a line without the marker appended to it / put in front of it
WithoutTrailingMarker(line) == Slice(line, 0, Len(line) - Len(Ellipsis))
WithoutLeadingMarker(line) == Slice(line, Len(Ellipsis), Len(line))

\* C5: the first line of the cleaned message is at most maxSubjectLength
\* characters long, the ellipsis marker and trailing whitespace included.
C5_FirstLineWithinLimit ==
    cleanStage = 1 => RuneCount(OutLines[1]) <= cleanCfg.MaxLength

\* C6: for a message without thinking markers the non-whitespace bytes of the
\* result are those of the message, in order, with at most the two inserted
\* ellipsis markers (adjacent once the inserted newline is ignored) added.
C6_NoContentLost ==
    (cleanStage = 1 /\ NoMarkers(cleanIn)) =>
        LET n == NonSpace(cleanIn)
            o == NonSpace(cleanOut)
        IN  \/ o = n
            \/ \E i \in 0..Len(n) :
                 o = Slice(n, 0, i) \o Ellipsis \o Ellipsis \o Slice(n, i, Len(n))

C6_Witness ==
    /\ cleanStage = 1
    /\ NoMarkers(cleanIn)
    /\ TooLong
    /\ Len(OutLines) >= 3
    /\ NonSpace(cleanOut) # NonSpace(cleanIn)

\* C7 as stated: an over-long subject is split at the last space at or before
\* offset maxSubjectLength-1, or at offset maxSubjectLength-1 when there is
\* none; the head gets the ellipsis marker, the remainder follows as a new line
\* starting with the marker, and the body lines follow in order.
C7_SplitAtOrBeforeLimit ==
    cleanStage = 1 =>
        LET M == cleanCfg.MaxLength
            lines == CleanLines
            subject == TrimSpace(lines[1])
            out == OutLines
            spaces == SpacesBelow(subject, M)
            p == IF spaces = {} THEN M - 1 ELSE SetMax(spaces)
        IN  Len(subject) > M =>
              /\ Len(out) = Len(lines) + 1
              /\ out[1] = Slice(subject, 0, p) \o Ellipsis
              /\ StartsWith(out[2], Ellipsis)
              /\ SubSeq(out, 3, Len(out)) = Tail(lines)

\* C7 amended: the split is at the last space byte strictly before offset
\* maxSubjectLength-1 and the remainder is trimmed, or, with no such space, at
\* offset maxSubjectLength-1 with the remainder verbatim.
C7_SplitBeforeLimit ==
    cleanStage = 1 =>
        LET M == cleanCfg.MaxLength
            lines == CleanLines
            subject == TrimSpace(lines[1])
            spaces == SpacesBelow(subject, M - 1)
            p == IF spaces # {} THEN SetMax(spaces) ELSE M - 1
            rest == Slice(subject, p, Len(subject))
        IN  Len(subject) > M =>
              OutLines = <<Slice(subject, 0, p) \o Ellipsis,
                           Ellipsis \o (IF spaces # {} THEN TrimSpace(rest) ELSE rest)>>
                         \o Tail(lines)

C7_Witness ==
    /\ cleanStage = 1
    /\ TooLong
    /\ SpacesBelow(CleanSubject, cleanCfg.MaxLength - 1) # {}
    /\ Len(CleanLines) >= 2
    /\ Len(OutLines) = Len(CleanLines) + 1

\* C8 as stated: the two lines of a split subject, the inserted markers and
\* newline removed, concatenate to the subject, byte for byte.
C8_RoundTripExact ==
    (cleanStage = 1 /\ NoMarkers(cleanIn)) =>
        LET subject == CleanSubject
            out == OutLines
        IN  Len(subject) > cleanCfg.MaxLength =>
              /\ Len(out) >= 2
              /\ EndsWith(out[1], Ellipsis)
              /\ StartsWith(out[2], Ellipsis)
              /\ WithoutTrailingMarker(out[1]) \o WithoutLeadingMarker(out[2]) = subject

\* C8 amended: they reproduce the subject but for the run of whitespace at the
\* split point, which is dropped when the split is at a space; a split at the
\* byte boundary reproduces the subject exactly.
C8_RoundTripModuloSpace ==
    (cleanStage = 1 /\ NoMarkers(cleanIn)) =>
        LET subject == CleanSubject
            out == OutLines
            head == WithoutTrailingMarker(out[1])
            rest == WithoutLeadingMarker(out[2])
        IN  Len(subject) > cleanCfg.MaxLength =>
              /\ Len(out) >= 2
              /\ EndsWith(out[1], Ellipsis)
              /\ StartsWith(out[2], Ellipsis)
              /\ Len(head) + Len(rest) <= Len(subject)
              /\ StartsWith(subject, head)
              /\ EndsWith(subject, rest)
              /\ \A i \in (Len(head) + 1)..(Len(subject) - Len(rest)) : IsSpace(subject[i])
              /\ SpacesBelow(subject, cleanCfg.MaxLength - 1) = {} =>
                   head \o rest = subject

C8_Witness ==
    /\ cleanStage = 1
    /\ NoMarkers(cleanIn)
    /\ TooLong
    /\ Len(OutLines) >= 2
    /\ Len(OutLines[1]) + Len(OutLines[2]) - 2 * Len(Ellipsis) < Len(CleanSubject)

\* C9: cleaning a cleaned message changes nothing, for a message without
\* thinking markers.
C9_Idempotent ==
    (cleanStage = 2 /\ NoMarkers(cleanIn)) => cleanOut2 = cleanOut

HasThinkPair(s) ==
    \E i \in Occurrences(s, OpenTag), j \in Occurrences(s, CloseTag) : i < j

\* the text after the last closing marker
AfterLastClose(s) == Slice(s, LastIndex(s, CloseTag) + Len(CloseTag), Len(s))

\* C10: of a message with a thinking pair only what follows the last closing
\* marker counts: the result is that of cleaning the trailing text alone, and
\* is the trimmed trailing text itself when that text has no marker and its
\* first line fits.
C10_AnswerAfterThinking ==
    (cleanStage = 1 /\ HasThinkPair(cleanIn)) =>
        LET answer == TrimSpace(AfterLastClose(cleanIn))
            firstLine == TrimSpace(Split(answer, <<NL>>)[1])
        IN  /\ cleanOut = CleanCommitMessage(answer, cleanCfg)
            /\ (NoMarkers(answer) /\ Len(firstLine) <= cleanCfg.MaxLength) =>
                 cleanOut = answer

C10_Witness ==
    /\ cleanStage = 1
    /\ Cardinality(Occurrences(cleanIn, CloseTag)) >= 2
    /\ HasThinkPair(cleanIn)
    /\ NoMarkers(AfterLastClose(cleanIn))
    /\ cleanOut # <<>>
    /\ cleanOut = TrimSpace(AfterLastClose(cleanIn))

\* the message with every marker removed and nothing else
MarkersStripped(s) == ReplaceAll(ReplaceAll(s, OpenTag), CloseTag)

\* C11: of a message whose markers form no pair (an opening marker with no
\* closing marker after it, a closing marker with no opening marker before
\* it) only the marker text is removed: the non-whitespace bytes of the result
\* are those of the message without its markers (the ellipsis markers of a
\* split subject aside), and the result is empty only if nothing else was
\* there.
C11_UnmatchedMarkersOnlyStripped ==
    (cleanStage = 1 /\ ~NoMarkers(cleanIn) /\ ~HasThinkPair(cleanIn)) =>
        LET n == NonSpace(MarkersStripped(cleanIn))
            o == NonSpace(cleanOut)
        IN  /\ \/ o = n
               \/ \E i \in 0..Len(n) :
                    o = Slice(n, 0, i) \o Ellipsis \o Ellipsis \o Slice(n, i, Len(n))
            /\ n # <<>> => cleanOut # <<>>

\* --------------------------------------------------- claims on the providers

EmptyKinds == {"empty_response", "empty_after_cleaning"}

\* C12: an EmptyResponseError, whether the answer was blank or normalization
\* emptied it, carries the raw text the backend returned, for both providers.
C12_EmptyResponseCarriesRawText ==
    \A i \in 1..Len(log) :
        (log[i].op \in {"summarize", "generate"} /\ log[i].err.kind \in EmptyKinds) =>
            log[i].err.detail = log[i].raw

NetworkOps == {"health", "summarize", "generate"}

\* C14: each network operation of an invocation is attempted at most once, and
\* a failed one is the last thing the invocation does: it ends with the error.
C14_NoRetry ==
    /\ \A op \in NetworkOps : Cardinality({i \in 1..Len(log) : log[i].op = op}) <= 1
    /\ \A i \in 1..Len(log) :
         log[i].err # NoErr => i = Len(log) /\ pc = "error" /\ err # NoErr /\ msg = <<>>

C14_Witness ==
    /\ pc = "error"
    /\ Len(log) = 3
    /\ log[1].op = "health" /\ log[1].err = NoErr
    /\ log[3].op = "summarize" /\ log[3].err.kind = "timeout"

\* ------------------------------------------ claims on single operations

Ran1(u) == unit = u /\ unitDone

\* C13: IsDiffTooLarge is true exactly for a diff of more than 1575
\* whitespace-separated words: false up to and at 1575, true from 1576, and
\* false for the empty diff.
C13_OversizedAbove1575 ==
    Ran1("IsDiffTooLarge") =>
        /\ unitOut = (unitIn.words > 1575)
        /\ unitIn.diff = <<>> => unitOut = FALSE

C13_Witness ==
    /\ Ran1("IsDiffTooLarge")
    /\ unitIn.words = 1576
    /\ unitIn.diff[2] = "d" /\ unitIn.diff[3] = TAB
    /\ unitOut = TRUE

\* where chunk k starts in the text the chunks make up (0-based offset)
RECURSIVE ChunkStart(_, _)
ChunkStart(chunks, k) ==
    IF k = 1 THEN 0 ELSE ChunkStart(chunks, k - 1) + Len(chunks[k - 1])

\* the chunks laid out one after the other in arrival order
InArrivalOrder(chunks) ==
    [i \in 1..ChunkStart(chunks, Len(chunks) + 1) |->
        LET k == CHOOSE j \in 1..Len(chunks) :
                    ChunkStart(chunks, j) < i /\ i <= ChunkStart(chunks, j + 1)
        IN  chunks[k][i - ChunkStart(chunks, k)]]

\* C15: the streamed chunks are joined in arrival order and only the joined
\* text is normalized; a request that fails after chunks arrived returns the
\* error and the empty message, never the partial text.
C15_PartialOutputDiscarded ==
    Ran1("OllamaGenerate") =>
        LET joined == TrimSpace(InArrivalOrder(unitIn.chunks))
        IN  /\ unitIn.err # "none" => unitOut.msg = <<>> /\ unitOut.err # NoErr
            /\ unitIn.err = "none" =>
                 IF unitOut.err = NoErr
                 THEN unitOut.msg = CleanCommitMessage(joined, unitIn.cfg)
                 ELSE unitOut.msg = <<>> /\ unitOut.err.kind \in EmptyKinds

C15_Witness ==
    /\ Ran1("OllamaGenerate")
    /\ unitIn.err = "context deadline exceeded"
    /\ Len(unitIn.chunks) = 2
    /\ unitIn.chunks[1] = <<"f", "i">>
    /\ unitIn.chunks[2] # <<>>
    /\ unitOut.msg = <<>>
    /\ unitOut.err.kind = "timeout"

ProtocolKinds == {"api_status", "decode_failed", "no_choices"}

\* C16: the OpenAI-compatible provider succeeds only on status 200 with a
\* decodable body that has a choice; 401, 404 and 429 give the
\* authentication, model-not-found and rate-limit errors, every status from
\* 500 to 599 the server error, and any other status, an undecodable body or
\* a body without choices a protocol error (carrying the status when the
\* status is the cause).
C16_StatusMapping ==
    (Ran1("OpenAIGenerate") /\ unitIn.err = "none") =>
        LET st == unitIn.status
            k == unitOut.err.kind
        IN  /\ unitOut.err = NoErr =>
                 st = 200 /\ unitIn.decodes /\ Len(unitIn.choices) > 0
            /\ st = 401 => k = "authentication"
            /\ st = 404 => k = "model_not_found"
            /\ st = 429 => k = "rate_limit"
            /\ st \in 500..599 => k = "server_error"
            /\ (st \notin {200, 401, 404, 429} \cup (500..599)) =>
                 k = "api_status" /\ unitOut.err.detail = <<ToString(st), unitIn.body>>
            /\ (st = 200 /\ (~unitIn.decodes \/ Len(unitIn.choices) = 0)) =>
                 k \in ProtocolKinds

\* C17: the Ollama health check succeeds exactly when the listing succeeds
\* and names the configured model; when the listing succeeds without it the
\* error is model-not-found and lists every listed model, in listing order.
C17_ModelListed ==
    Ran1("OllamaHealthCheck") =>
        LET listed == \E i \in 1..Len(unitIn.models) : unitIn.models[i] = Model
        IN  /\ unitOut.err = NoErr <=> (unitIn.err = "none" /\ listed)
            /\ (unitIn.err = "none" /\ ~listed) =>
                 /\ unitOut.err.kind = "model_not_found"
                 /\ unitOut.err.detail = unitIn.models

C17_Witness ==
    /\ Ran1("OllamaHealthCheck")
    /\ unitIn.err = "none"
    /\ unitIn.models = <<"phi", "mistral", "phi">>
    /\ unitOut.err.kind = "model_not_found"
    /\ unitOut.err.detail = <<"phi", "mistral", "phi">>

NetworkUnits == {"OllamaHealthCheck", "OllamaGenerate", "OpenAIGenerate", "OpenAIHealthCheck"}
Endpoint(u) ==
    IF u \in {"OllamaHealthCheck", "OllamaGenerate"} THEN Host
    ELSE IF u = "OpenAIHealthCheck" THEN unitIn.config.BaseURL
    ELSE BaseURL

\* C18: for both providers and every network operation a refused connection
\* or an unreachable host gives the connectivity error naming the configured
\* endpoint, and an exceeded deadline gives the timeout error carrying the
\* configured timeout.
C18_ClassifiedTransportErrors ==
    (unitDone /\ unit \in NetworkUnits) =>
        /\ unitIn.err \in {"connection refused", "no such host"} =>
             unitOut.err.kind = "connectivity" /\ unitOut.err.detail = Endpoint(unit)
        /\ unitIn.err = "context deadline exceeded" =>
             unitOut.err.kind = "timeout" /\ unitOut.err.detail = <<Timeout>>

\* C19: the error a network operation returns still reaches the transport
\* error underneath it, also when it is classified as a timeout or as a
\* refused connection.
C19_CauseChainPreserved ==
    (unitDone /\ unit \in NetworkUnits /\ unitIn.err # "none") =>
        unitOut.err.unwrap = unitIn.err

\* C20: the deadline of a health check is the same whatever provider.timeout
\* is, for both providers, and the deadline of a summarization or generation
\* request is provider.timeout.
C20_HealthCheckDeadlineFixed ==
    Ran1("Deadline") =>
        /\ unitIn.op = "health" => unitOut.deadline = unitOut.otherDeadline
        /\ unitIn.op # "health" => unitOut.deadline = unitIn.timeout

\* C21: the commit prompt ends with the section header matching isFileSummary
\* and then the content; it has no README block for an empty README, and
\* otherwise a block holding the README's first 20 lines at most, ending with
\* the truncation marker exactly when the README has more than 20 lines.
C21_PromptSections ==
    Ran1("BuildCommitPrompt") =>
        LET block == unitOut.readmeSection
            marked == EndsWith(block, <<NL>> \o TruncatedMarker)
            kept == IF marked
                    THEN Slice(block, 0, Len(block) - Len(TruncatedMarker) - 1)
                    ELSE block
        IN  /\ unitOut.header = (IF unitIn.isFileSummary THEN SummaryHeader ELSE DiffHeader)
            /\ unitOut.content = unitIn.content
            /\ unitOut.hasReadme = (unitIn.readme # <<>>)
            /\ unitIn.readme = <<>> => block = <<>>
            /\ unitIn.readme # <<>> =>
                 /\ StartsWith(unitIn.readme, kept)
                 /\ Len(Split(kept, <<NL>>)) <= 20
                 /\ marked = (unitIn.lines > 20)
                 /\ ~marked => kept = unitIn.readme

\* ------------------------------------------ more claims on the invocation

\* C22: summarization requests carry temperature 0.3 and top-p 0.8, generation
\* requests 0.7 and 0.9, for both providers, and every request of an
\* invocation carries the budget of 4096 tokens the triage threshold is
\* derived from.
C22_SamplingParameters ==
    \A i \in 1..Len(log) :
        LET req == log[i].request
        IN  /\ log[i].op = "summarize" => req.temperature10 = 3 /\ req.topP10 = 8
            /\ log[i].op = "generate" => req.temperature10 = 7 /\ req.topP10 = 9
            /\ log[i].op \in {"summarize", "generate"} =>
                 /\ req.op = log[i].op
                 /\ req.numCtx = 4096
                 /\ req.numCtx = ContextWindow
                 /\ MaxWords = ((req.numCtx \div 2) * 10) \div 13

C22_Witness ==
    /\ provider = "ollama"
    /\ pc = "done"
    /\ Len(BackendCalls) = 2
    /\ BackendCalls[1].request.temperature10 = 3
    /\ BackendCalls[2].request.temperature10 = 7
    /\ BackendCalls[1].request.numCtx = BackendCalls[2].request.numCtx

Other(p) == IF p = "ollama" THEN "openai" ELSE "ollama"

\* the answer of provider p's backend that carries the text raw
TextResponse(p, raw) ==
    IF p = "ollama" THEN [err |-> "none", chunks |-> <<raw>>]
    ELSE [err |-> "none", status |-> 200, decodes |-> TRUE, choices |-> <<raw>>, body |-> ""]

RequestOf(p, op, prompt) ==
    IF op = "summarize" THEN SummarizeRequest(p, prompt) ELSE GenerateRequest(p, prompt)

C29_SummaryIsCleaned ==
    \A i \in 1..Len(BackendCalls) :
        LET e == BackendCalls[i]
            cleaned == CleanCommitMessage(TrimSpace(e.raw), commitConfig)
        IN  e.op = "summarize" =>
              /\ e.err = NoErr =>
                   /\ cleaned # <<>>
                   /\ content = cleaned
                   /\ isSummary
                   /\ Len(BackendCalls) > i =>
                        /\ BackendCalls[i + 1].request.prompt.content = cleaned
                        /\ BackendCalls[i + 1].request.prompt.header = SummaryHeader
              /\ (e.err.kind \in {"nil"} \cup EmptyKinds /\ cleaned = <<>>) =>
                   e.err # NoErr /\ Len(BackendCalls) = i /\ pc = "error"

C29_Witness ==
    /\ Len(BackendCalls) = 2
    /\ BackendCalls[1].op = "summarize"
    /\ ~Contains(BackendCalls[1].raw, Ellipsis)
    /\ Contains(BackendCalls[2].request.prompt.content, Ellipsis)
    /\ BackendCalls[2].request.prompt.header = SummaryHeader

\* C28: whatever the message, the cleaned message contains neither "<think>"
\* nor "</think>", also when removing a marker joins the text around it into
\* a marker.
C28_NoMarkerInOutput ==
    Ran1("CleanCommitMessage") => NoMarkers(unitOut)

\* C30: the OpenAI health check reports the kind the request determined from
\* the status or the transport failure: authentication only for a 401,
\* model-not-found only for a 404, connectivity only for a connection failure,
\* whatever the model name, the base URL and the response body say.
C30_HealthCheckKind ==
    Ran1("OpenAIHealthCheck") =>
        LET k == unitOut.err.kind
        IN  /\ k = OpenAIMakeRequestFor(unitIn.config, unitIn).kind
            /\ k = "authentication" => unitIn.err = "none" /\ unitIn.status = 401
            /\ k = "model_not_found" => unitIn.err = "none" /\ unitIn.status = 404
            /\ k = "connectivity" => unitIn.err \in {"connection refused", "no such host"}

\* C27: a config Load returns without error, from the defaults or from a
\* parsed file, has provider type "ollama" or "openai" with the matching
\* section set and its required fields non-empty, a timeout above 0 and up to
\* ten minutes and a max_length from 20 to 200; NewProvider on it builds the
\* variant of that type and never fails.
C27_LoadedConfigValid ==
    (Ran1("Load") /\ unitOut.err = NoErr) =>
        LET c == unitOut.cfg
        IN  /\ c.Type \in {"ollama", "openai"}
            /\ c.Type = "ollama" => c.Ollama.set /\ c.Ollama.Host # "" /\ c.Ollama.Model # ""
            /\ c.Type = "openai" =>
                 /\ c.OpenAI.set /\ c.OpenAI.BaseURL # ""
                 /\ c.OpenAI.APIKeyLen > 0 /\ c.OpenAI.Model # ""
            /\ c.Timeout > 0 /\ c.Timeout <= 600
            /\ c.MaxLength >= 20 /\ c.MaxLength <= 200
            /\ unitOut.provider.err = NoErr
            /\ unitOut.provider.variant = c.Type


\* ---- run of the CLI

Steps(step) == {i \in 1..Len(effects) : effects[i].step = step}
Before(i, step) == \E j \in 1..(i - 1) : effects[j].step = step /\ effects[j].ok
EmptyDiffRead == diff = <<>> /\ \E i \in Steps("diff") : effects[i].ok

\* C23: when the staged diff read by run is empty, run has returned its error
\* about the missing changes, no provider was constructed, no health check,
\* summarize or generate request was made and nothing was committed, with or
\* without -a; and with -a the staging has happened before the diff is read
C23_EmptyDiffStopsRun ==
    /\ EmptyDiffRead =>
         /\ runPc = "failed"
         /\ runErr.kind = (IF flags.a THEN "no_changes_to_stage" ELSE "no_staged_changes")
         /\ provider = "none" /\ pc = "idle" /\ log = <<>>
         /\ Steps("commit") = {} /\ Steps("generate") = {} /\ Steps("edit") = {}
    /\ \A i \in Steps("diff") :
         IF flags.a THEN Before(i, "stage") ELSE Steps("stage") = {}

C23_Witness ==
    /\ EmptyDiffRead /\ flags.a /\ runPc = "failed"
    /\ \E i \in Steps("diff") : Before(i, "stage")

\* C24: git commit is executed at most once, as the last step, and only after
\* config load, repository validation, diff retrieval and GenerateCommitMessage
\* have succeeded and no step before it has failed; the committed message is
\* never empty
C24_CommitOnceAfterSuccess ==
    /\ Cardinality(Steps("commit")) <= 1
    /\ \A i \in Steps("commit") :
         /\ i = Len(effects)
         /\ \A step \in {"load", "validate", "diff", "generate"} : Before(i, step)
         /\ \A j \in 1..(i - 1) : effects[j].ok
         /\ effects[i].text # <<>>
         /\ TrimSpace(effects[i].text) # <<>>
    /\ (runPc = "failed" /\ Steps("commit") # {}) => ~effects[Len(effects)].ok

C24_Witness ==
    /\ runPc = "done"
    /\ \E i \in Steps("commit") : effects[i].ok /\ isSummary

\* C25: with -e the committed message is what the editor left, trimmed; when
\* the editor fails or leaves nothing but whitespace, run fails and nothing is
\* committed; without -e the editor is not run and the generated message is
\* committed unchanged
C25_EditorResultCommitted ==
    /\ \A i \in Steps("commit") :
         IF flags.e
         THEN /\ i > 1 /\ effects[i - 1].step = "edit" /\ effects[i - 1].ok
              /\ effects[i].text = TrimSpace(effects[i - 1].text)
         ELSE /\ i > 1 /\ effects[i - 1].step = "generate"
              /\ effects[i].text = effects[i - 1].text
    /\ \A i \in Steps("edit") :
         /\ flags.e
         /\ (~effects[i].ok \/ TrimSpace(effects[i].text) = <<>>) =>
              /\ runPc = "failed" /\ runErr.kind = "edit_failed"
              /\ Steps("commit") = {}
    /\ ~flags.e => Steps("edit") = {}

C25_Witness ==
    /\ flags.e
    /\ \E i \in Steps("commit") :
         /\ effects[i].ok
         /\ effects[i].text # effects[i - 1].text
         /\ effects[i].text # effects[i - 2].text

====
